---- MODULE Spec2Model ----
(***************************************************************************)
(* bitcoin-tags: the Collector (bitcoin_version.py) crawls a paginated tag *)
(* listing, deduplicates by tag name and writes a table; the Renderer      *)
(* (make_plot.py) reads the table, classifies each tag and builds the      *)
(* cumulative and per-year series.                                         *)
(*                                                                         *)
(* Python strings are sequences of one-character strings, so that          *)
(* lower(), substring search, the version pattern, ISO-8601 parsing and    *)
(* string ordering are computed, not assumed.  None is a value of its own. *)
(***************************************************************************)
EXTENDS Integers, Sequences, FiniteSets, TLC

VARIABLES
  pc,             \* position of the running script
  url,            \* scrape_all_tags: address of the next page to fetch, or None
  seen_urls,      \* scrape_all_tags: addresses already fetched
  all_tags,       \* scrape_all_tags: the dedup mapping, name -> TagInfo
  page_num,       \* scrape_all_tags: loop counter
  delay_seconds,  \* scrape_all_tags: the politeness delay, in tenths of a second
  csv_file,       \* the table file: the rows given to csv.writer, which are the rows
                  \* csv.DictReader reads back; <<>> while unwritten
  fetched,        \* history: the addresses given to fetch_html, in order
  slept,          \* history: k is a member when time.sleep ran after the k-th fetch
  failed,         \* history: a fetch raised
  observed,       \* history: every TagInfo parsed from a fetched page
  replaced,       \* history: name -> number of times its record was overwritten
  warnings,       \* history: the kinds of warning printed so far
  last_next,      \* history: the next address parsed from the latest page
  tags,           \* make_plot.py: the list load_tags returned
  plot,           \* make_plot.py: the series make_plot computed
  cname,          \* classify_tag: its argument
  cresult         \* classify_tag: its result, <<>> before the call

vars == <<pc, url, seen_urls, all_tags, page_num, delay_seconds, csv_file,
          fetched, slept, failed, observed, replaced, warnings, last_next,
          tags, plot, cname, cresult>>

collectorVars == <<url, seen_urls, all_tags, page_num, delay_seconds,
                   fetched, slept, failed, observed, replaced, warnings, last_next>>
rendererVars == <<tags, plot>>
classifierVars == <<cname, cresult>>

----------------------------------------------------------------------------
(* Bounds of the model *)

\* number of distinct page addresses the listing source can hand out
NumUrls == 2
\* most tag rows on one listing page
MaxPageLen == 2
\* most records in a dedup mapping handed to save_csv by the round-trip runs
MaxRecords == 3
\* most tokens in the middle part of a classify_tag argument
MaxCore == 6

----------------------------------------------------------------------------
(* Strings *)

None == <<"None">>

\* the characters that occur, in code point order
CharTable ==
  <<"\n", " ", "+", ",", "-", ".", "0", "1", "2", "3", "4", "5", "6", "7", "8", "9", ":",
    "A", "B", "C", "D", "E", "F", "G", "H", "I", "J", "K", "L", "M",
    "N", "O", "P", "Q", "R", "S", "T", "U", "V", "W", "X", "Y", "Z",
    "a", "b", "c", "d", "e", "f", "g", "h", "i", "j", "k", "l", "m",
    "n", "o", "p", "q", "r", "s", "t", "u", "v", "w", "x", "y", "z">>

Ord(c) == CHOOSE i \in 1..Len(CharTable) : CharTable[i] = c

IsUpper(c) == Ord(c) >= Ord("A") /\ Ord(c) <= Ord("Z")

\* str.lower()
Lower(s) == [i \in 1..Len(s) |->
               IF IsUpper(s[i]) THEN CharTable[Ord(s[i]) + (Ord("a") - Ord("A"))] ELSE s[i]]

\* x in s, for strings
Contains(s, x) ==
  \E i \in 0..(Len(s) - Len(x)) : \A j \in 1..Len(x) : s[i + j] = x[j]

\* s < t in Python's string order
RECURSIVE StrLess(_, _)
StrLess(s, t) ==
  IF t = <<>> THEN FALSE
  ELSE IF s = <<>> THEN TRUE
  ELSE IF Head(s) = Head(t) THEN StrLess(Tail(s), Tail(t))
  ELSE Ord(Head(s)) < Ord(Head(t))

S_name == <<"n", "a", "m", "e">>
S_date_iso == <<"d", "a", "t", "e", "_", "i", "s", "o">>

----------------------------------------------------------------------------
(* The Collector: bitcoin_version.py *)

TagInfo(name, date_iso) == [name |-> name, date_iso |-> date_iso]

START_URL == <<"https://github.com/bitcoin/bitcoin/tags">>

\* a Next link: urljoin(BASE_URL, href), with the href's after= cursor
AfterUrl(cursor) == START_URL \o <<"?after=">> \o cursor

\* parse_qs(urlparse(next_url).query).get("after", []): blank values are dropped
AfterVals(u) ==
  IF Len(u) > 2 /\ u[2] = "?after=" THEN <<SubSeq(u, 3, Len(u))>> ELSE <<>>

V1_0 == <<"v", "1", ".", "0">>
V0_9 == <<"v", "0", ".", "9">>
V0_8 == <<"v", "0", ".", "8">>
V0_7 == <<"v", "0", ".", "7">>
D2020 == <<"2", "0", "2", "0", "-", "0", "1", "-", "0", "1", "T",
           "0", "0", ":", "0", "0", ":", "0", "0", "Z">>

\* what the listing source can answer: tag names, date strings, page addresses
CrawlNames == {V1_0, V0_9}
CrawlDates == {None, <<>>, D2020}
\* the rows a page can show: the first name with every kind of date, the
\* second without a date or with a timestamp
TagInfos == {TagInfo(V1_0, d) : d \in CrawlDates} \cup {TagInfo(V0_9, d) : d \in {None, D2020}}
UrlList == <<START_URL, AfterUrl(V1_0), AfterUrl(V0_9), AfterUrl(V0_8), AfterUrl(V0_7)>>
URLs == {UrlList[i] : i \in 1..NumUrls}
Pages == UNION {[1..n -> TagInfos] : n \in 0..MaxPageLen}
Delays == {0, 7}

\* truthiness of an Optional[str]
Truthy(s) == s # None /\ s # <<>>

\* all_tags[t.name] = t
Put(all, t) == [n \in DOMAIN all \cup {t.name} |-> IF n = t.name THEN t ELSE all[n]]

\* a mutant: the new entry wins whenever it has a date
PreferNew_AnyDated(existing, t) == t.date_iso # None

\* the test of line 148: the stored entry has no date and the new one has
PreferNew(existing, t) == existing.date_iso = None /\ t.date_iso # None

\* one pass of the loop body of lines 142-149
Insert(all, t) ==
  IF t.name \notin DOMAIN all THEN Put(all, t)
  ELSE IF PreferNew(all[t.name], t) THEN Put(all, t)
  ELSE all

\* the for loop of lines 142-149
RECURSIVE DedupPage(_, _)
DedupPage(all, page_tags) ==
  IF page_tags = <<>> THEN all
  ELSE DedupPage(Insert(all, Head(page_tags)), Tail(page_tags))

\* history: how often that loop overwrites the record of name n
RECURSIVE Overwrites(_, _, _)
Overwrites(all, page_tags, n) ==
  IF page_tags = <<>> THEN 0
  ELSE LET t == Head(page_tags)
           hit == t.name = n /\ n \in DOMAIN all /\ Insert(all, t)[n] # all[n]
       IN (IF hit THEN 1 ELSE 0) + Overwrites(Insert(all, t), Tail(page_tags), n)

\* the warnings of lines 125-139
Warnings(page_tags, next_url) ==
  IF page_tags = <<>> THEN {"empty"}
  ELSE IF Truthy(next_url) /\ AfterVals(next_url) # <<>>
          /\ AfterVals(next_url)[1] # page_tags[Len(page_tags)].name
       THEN {"mismatch"}
  ELSE {}

\* a mutant: a page without tags ends the crawl
NextUrl_StopOnEmpty(page_tags, next_url) == IF page_tags = <<>> THEN None ELSE next_url

\* line 151: url = next_url
NextUrl(page_tags, next_url) == next_url

\* a mutant: the loop test without the visited set
LoopGuard_NoVisited == Truthy(url) /\ Len(fetched) <= NumUrls

\* line 118: while url and url not in seen_urls
LoopGuard == Truthy(url) /\ url \notin seen_urls

\* line 153: if url and delay_seconds > 0
SleepAfter(next) == Truthy(next) /\ delay_seconds > 0

\* lines 119-154 with a successful fetch: the page holds page_tags and the
\* Next link next_url (None when the page has none)
LoopBody(page_tags, next_url) ==
  /\ pc = "loop"
  /\ LoopGuard
  /\ seen_urls' = seen_urls \cup {url}
  /\ fetched' = Append(fetched, url)
  /\ warnings' = warnings \cup Warnings(page_tags, next_url)
  /\ last_next' = next_url
  /\ all_tags' = DedupPage(all_tags, page_tags)
  /\ observed' = observed \cup {page_tags[i] : i \in 1..Len(page_tags)}
  /\ replaced' = [n \in CrawlNames |-> replaced[n] + Overwrites(all_tags, page_tags, n)]
  /\ url' = NextUrl(page_tags, next_url)
  /\ page_num' = page_num + 1
  /\ slept' = IF SleepAfter(url') THEN slept \cup {Len(fetched')} ELSE slept
  /\ UNCHANGED <<pc, delay_seconds, csv_file, failed, rendererVars, classifierVars>>

PageFetched == \E page_tags \in Pages, next_url \in URLs \cup {None} : LoopBody(page_tags, next_url)

\* a mutant: the failed fetch is swallowed and the crawl returns what it has
FetchFails_Swallowed ==
  /\ pc = "loop"
  /\ LoopGuard
  /\ seen_urls' = seen_urls \cup {url}
  /\ fetched' = Append(fetched, url)
  /\ failed' = TRUE
  /\ pc' = "returned"
  /\ UNCHANGED <<url, all_tags, page_num, delay_seconds, csv_file, slept, observed,
                 replaced, warnings, last_next, rendererVars, classifierVars>>

\* lines 119-122 with session.get or raise_for_status raising: nothing catches
\* the exception, neither in scrape_all_tags nor in main
FetchFails ==
  /\ pc = "loop"
  /\ LoopGuard
  /\ seen_urls' = seen_urls \cup {url}
  /\ fetched' = Append(fetched, url)
  /\ failed' = TRUE
  /\ pc' = "aborted"
  /\ UNCHANGED <<url, all_tags, page_num, delay_seconds, csv_file, slept, observed,
                 replaced, warnings, last_next, rendererVars, classifierVars>>

\* lines 156-157: the loop test fails and scrape_all_tags returns all_tags
LoopExit ==
  /\ pc = "loop"
  /\ ~LoopGuard
  /\ pc' = "returned"
  /\ UNCHANGED <<collectorVars, csv_file, rendererVars, classifierVars>>

\* the sort key of line 162: (x.date_iso or "", x.name)
DateOrEmpty(d) == IF Truthy(d) THEN d ELSE <<>>
KeyLess(x, y) ==
  \/ StrLess(DateOrEmpty(x.date_iso), DateOrEmpty(y.date_iso))
  \/ /\ DateOrEmpty(x.date_iso) = DateOrEmpty(y.date_iso)
     /\ StrLess(x.name, y.name)

\* sorted(tags.values(), key=...): the keys differ, since the names do
RECURSIVE SortedByKey(_)
SortedByKey(S) ==
  IF S = {} THEN <<>>
  ELSE LET m == CHOOSE x \in S : \A y \in S \ {x} : KeyLess(x, y)
       IN <<m>> \o SortedByKey(S \ {m})

\* the rows save_csv writes: the header, then one row per record
CsvRows(all) ==
  LET items == SortedByKey({all[n] : n \in DOMAIN all})
  IN <<<<S_name, S_date_iso>>>>
       \o [i \in 1..Len(items) |-> <<items[i].name, DateOrEmpty(items[i].date_iso)>>]

\* save_csv, called by main at line 183
SaveCsv ==
  /\ pc = "returned"
  /\ csv_file' = CsvRows(all_tags)
  /\ pc' = "saved"
  /\ UNCHANGED <<collectorVars, rendererVars, classifierVars>>

NoFunction == [n \in {} |-> None]
\* the Renderer's series before make_plot ran
NoPlot ==
  [all_dates |-> <<>>, all_counts |-> <<>>, stable_dates |-> <<>>, stable_counts |-> <<>>,
   stable_tags |-> <<>>, years |-> <<>>, all_counts_y |-> <<>>, stable_counts_y |-> <<>>,
   annotations |-> <<>>]

\* main() of bitcoin_version.py at the entry of scrape_all_tags' loop (lines 112-116)
Init ==
  /\ pc = "loop"
  /\ url = START_URL
  /\ seen_urls = {}
  /\ all_tags = NoFunction
  /\ page_num = 1
  /\ delay_seconds \in Delays
  /\ csv_file = <<>>
  /\ fetched = <<>>
  /\ slept = {}
  /\ failed = FALSE
  /\ observed = {}
  /\ replaced = [n \in CrawlNames |-> 0]
  /\ warnings = {}
  /\ last_next = None
  /\ tags = <<>>
  /\ plot = NoPlot
  /\ cname = <<>>
  /\ cresult = <<>>

Next == PageFetched \/ FetchFails \/ LoopExit \/ SaveCsv

Spec == Init /\ [][Next]_vars

\* the script is one thread whose blocking steps all end (session.get has
\* timeout=20, time.sleep is finite), so a step that can be taken is taken
FairSpec == Spec /\ WF_vars(Next)

----------------------------------------------------------------------------
(* The Renderer: make_plot.py *)

IsDigit(c) == Ord(c) >= Ord("0") /\ Ord(c) <= Ord("9")
DigitVal(c) == Ord(c) - Ord("0")
AllDigits(s) == \A i \in 1..Len(s) : IsDigit(s[i])

\* int() of a string of digits
RECURSIVE IntOf(_)
IntOf(s) == IF s = <<>> THEN 0 ELSE IntOf(SubSeq(s, 1, Len(s) - 1)) * 10 + DigitVal(s[Len(s)])

\* line 59: any(x in lower for x in ("rc", "beta", "alpha", "test"))
IsPrerelease(name) ==
  \E x \in {<<"r", "c">>, <<"b", "e", "t", "a">>, <<"a", "l", "p", "h", "a">>,
            <<"t", "e", "s", "t">>} : Contains(Lower(name), x)

\* ^v(\d+)\.(\d+)(?:\.(\d+))?$ on the whole of b: "v", then two or three
\* non-empty runs of digits separated by dots.  The result is the groups.
VersionGroups(b) ==
  LET dots == {i \in 1..Len(b) : b[i] = "."}
      cut(i, j) == SubSeq(b, i, j)
      run(s) == s # <<>> /\ AllDigits(s)
  IN IF Len(b) < 1 \/ b[1] # "v" THEN <<>>
     ELSE IF Cardinality(dots) = 1
       THEN LET d == CHOOSE i \in dots : TRUE
            IN IF run(cut(2, d - 1)) /\ run(cut(d + 1, Len(b)))
               THEN <<cut(2, d - 1), cut(d + 1, Len(b)), None>> ELSE <<>>
     ELSE IF Cardinality(dots) = 2
       THEN LET d == CHOOSE i \in dots : \A j \in dots : i <= j
                e == CHOOSE i \in dots : \A j \in dots : j <= i
            IN IF run(cut(2, d - 1)) /\ run(cut(d + 1, e - 1)) /\ run(cut(e + 1, Len(b)))
               THEN <<cut(2, d - 1), cut(d + 1, e - 1), cut(e + 1, Len(b))>> ELSE <<>>
     ELSE <<>>

\* re.match of line 65: $ matches at the end of the string and also just
\* before a newline that ends the string; \d+ never takes the newline
VersionMatch(name) ==
  IF VersionGroups(name) # <<>> THEN VersionGroups(name)
  ELSE IF Len(name) > 0 /\ name[Len(name)] = "\n"
       THEN VersionGroups(SubSeq(name, 1, Len(name) - 1))
  ELSE <<>>

\* classify_tag: <<is_prerelease, is_major>>
classify_tag(name) ==
  LET is_prerelease == IsPrerelease(name)
      m == VersionMatch(name)
      major == IF m # <<>> /\ ~is_prerelease
               THEN m[3] = None \/ m[3] = <<"0">>
               ELSE FALSE
  IN <<is_prerelease, major>>

\* classify_tag called on cname
Classify ==
  /\ pc = "classify"
  /\ cresult' = classify_tag(cname)
  /\ pc' = "classified"
  /\ UNCHANGED <<collectorVars, csv_file, rendererVars, cname>>

LEAD_RC == <<"r", "c">>
LEAD_TEST == <<"T", "e", "s", "t">>
TRAIL_RC1 == <<"r", "c", "1">>
TRAIL_RCU == <<"R", "C">>
TRAIL_BETA == <<"b", "e", "t", "a">>
TRAIL_ALPHA == <<"A", "l", "p", "h", "a">>
TRAIL_TEST == <<"-", "T", "E", "S", "T">>
TRAIL_NL == <<"\n">>
TRAIL_X == <<"x">>

\* arguments for classify_tag: a middle part of version tokens between a
\* leading and a trailing piece
CoreTokens == {"v", "1", "0", "."}
Cores(maxLen) == UNION {[1..n -> CoreTokens] : n \in 0..maxLen}
Leads == {<<>>, LEAD_RC, LEAD_TEST}
Trails == {<<>>, TRAIL_RC1, TRAIL_RCU, TRAIL_BETA, TRAIL_ALPHA, TRAIL_TEST, TRAIL_NL, TRAIL_X}
ClassifyArgs(maxLen) == {a \o c \o z : a \in Leads, c \in Cores(maxLen), z \in Trails}

ClassifyInit ==
  /\ pc = "classify"
  /\ cname \in ClassifyArgs(MaxCore)
  /\ cresult = <<>>
  /\ url = START_URL
  /\ seen_urls = {}
  /\ all_tags = NoFunction
  /\ page_num = 1
  /\ delay_seconds = 0
  /\ csv_file = <<>>
  /\ fetched = <<>>
  /\ slept = {}
  /\ failed = FALSE
  /\ observed = {}
  /\ replaced = [n \in CrawlNames |-> 0]
  /\ warnings = {}
  /\ last_next = None
  /\ tags = <<>>
  /\ plot = NoPlot

ClassifyNext == Classify

ClassifySpec == ClassifyInit /\ [][ClassifyNext]_vars

----------------------------------------------------------------------------
(* The Renderer: reading the table *)

\* datetime.fromisoformat's failure
ValueError == [ok |-> FALSE]

IsLeap(y) == y % 4 = 0 /\ (y % 100 # 0 \/ y % 400 = 0)
DaysInMonth(y, m) ==
  IF m = 2 THEN (IF IsLeap(y) THEN 29 ELSE 28)
  ELSE IF m \in {4, 6, 9, 11} THEN 30 ELSE 31
RECURSIVE DaysBeforeMonth(_, _)
DaysBeforeMonth(y, m) == IF m = 1 THEN 0 ELSE DaysBeforeMonth(y, m - 1) + DaysInMonth(y, m - 1)
DaysBeforeYear(y) == (y - 1) * 365 + (y - 1) \div 4 - (y - 1) \div 100 + (y - 1) \div 400

\* the field at 1-based place i of s is n digits
Field(s, i, n) == Len(s) >= i + n - 1 /\ AllDigits(SubSeq(s, i, i + n - 1))

\* the time part HH[:MM[:SS]] of an ISO string: <<ok, hour, minute, second>>
ParseClock(t) ==
  LET hh == IF Field(t, 1, 2) THEN IntOf(SubSeq(t, 1, 2)) ELSE 99
      mm == IF Len(t) >= 5 /\ t[3] = ":" /\ Field(t, 4, 2) THEN IntOf(SubSeq(t, 4, 5)) ELSE 99
      ss == IF Len(t) >= 8 /\ t[6] = ":" /\ Field(t, 7, 2) THEN IntOf(SubSeq(t, 7, 8)) ELSE 99
  IN IF Len(t) = 2 THEN <<hh < 24, hh, 0, 0>>
     ELSE IF Len(t) = 5 THEN <<hh < 24 /\ mm < 60, hh, mm, 0>>
     ELSE IF Len(t) = 8 THEN <<hh < 24 /\ mm < 60 /\ ss < 60, hh, mm, ss>>
     ELSE <<FALSE, 0, 0, 0>>

\* datetime.fromisoformat on YYYY-MM-DD, optionally followed by one separator
\* character, a time HH[:MM[:SS]] and a UTC offset +HH:MM or -HH:MM; any
\* other text raises.  (Fractions of a second are not in the model's inputs.)
FromIsoFormat(s) ==
  IF ~(Field(s, 1, 4) /\ Len(s) >= 10 /\ s[5] = "-" /\ Field(s, 6, 2) /\ s[8] = "-"
       /\ Field(s, 9, 2))
  THEN ValueError
  ELSE
    LET y == IntOf(SubSeq(s, 1, 4))
        m == IntOf(SubSeq(s, 6, 7))
        d == IntOf(SubSeq(s, 9, 10))
        rest == SubSeq(s, 12, Len(s))
        signs == {i \in 1..Len(rest) : rest[i] \in {"+", "-"}}
        cutAt == IF signs = {} THEN Len(rest) + 1 ELSE CHOOSE i \in signs : \A j \in signs : i <= j
        clock == ParseClock(SubSeq(rest, 1, cutAt - 1))
        zone == SubSeq(rest, cutAt + 1, Len(rest))
        zoneClock == ParseClock(zone)
        dateOk == y >= 1 /\ m >= 1 /\ m <= 12 /\ d >= 1 /\ d <= DaysInMonth(y, m)
        mk(h, mi, sec, aware, off) ==
          [ok |-> TRUE, year |-> y, month |-> m, day |-> d, hour |-> h, minute |-> mi,
           second |-> sec, aware |-> aware, offset |-> off]
    IN IF ~dateOk THEN ValueError
       ELSE IF Len(s) = 10 THEN mk(0, 0, 0, FALSE, 0)
       ELSE IF ~clock[1] THEN ValueError
       ELSE IF signs = {} THEN mk(clock[2], clock[3], clock[4], FALSE, 0)
       ELSE IF Len(zone) # 5 \/ ~zoneClock[1] THEN ValueError
       ELSE mk(clock[2], clock[3], clock[4], TRUE,
               (IF rest[cutAt] = "-" THEN -1 ELSE 1) * (zoneClock[2] * 60 + zoneClock[3]))

\* parse_iso8601: a trailing Z becomes +00:00, then fromisoformat
parse_iso8601(s) ==
  IF Len(s) > 0 /\ s[Len(s)] = "Z"
  THEN FromIsoFormat(SubSeq(s, 1, Len(s) - 1) \o <<"+", "0", "0", ":", "0", "0">>)
  ELSE FromIsoFormat(s)

\* the order of datetimes: seconds of UTC since 2000-01-01T00:00:00
Instant(dt) ==
  LET days == DaysBeforeYear(dt.year) + DaysBeforeMonth(dt.year, dt.month) + dt.day
              - (DaysBeforeYear(2000) + 1)
  IN ((days * 24 + dt.hour) * 60 + dt.minute - dt.offset) * 60 + dt.second

Tag(name, date, is_prerelease, is_major) ==
  [name |-> name, date |-> date, is_prerelease |-> is_prerelease, is_major |-> is_major]

\* csv.DictReader: item.get(key) of a data row under the header row
DictGet(header, row, key) ==
  LET places == {i \in 1..Len(header) : header[i] = key}
  IN IF places = {} THEN None
     ELSE LET i == CHOOSE k \in places : \A j \in places : j <= k
          IN IF i <= Len(row) THEN row[i] ELSE None

\* a mutant: the name is not looked at
Usable_DateOnly(name, date_str) == Truthy(date_str)

\* line 83, negated: the row has a name and a date string
Usable(name, date_str) == Truthy(name) /\ Truthy(date_str)

\* lines 80-94: the Tags of the rows, in file order
RECURSIVE ParseRows(_, _)
ParseRows(header, rows) ==
  IF rows = <<>> THEN <<>>
  ELSE LET item == Head(rows)
           name == DictGet(header, item, S_name)
           date_str == DictGet(header, item, S_date_iso)
           dt_obj == IF Truthy(date_str) THEN parse_iso8601(date_str) ELSE ValueError
           cls == classify_tag(name)
       IN (IF item # <<>> /\ Usable(name, date_str) /\ dt_obj.ok
           THEN <<Tag(name, dt_obj, cls[1], cls[2])>> ELSE <<>>)
          \o ParseRows(header, Tail(rows))

\* list.sort(key=lambda t: t.date) is stable: x goes after the elements that
\* are not later than it
RECURSIVE SortByDate(_)
SortByDate(ts) ==
  IF ts = <<>> THEN <<>>
  ELSE LET init == SortByDate(SubSeq(ts, 1, Len(ts) - 1))
           x == ts[Len(ts)]
           k == Cardinality({i \in 1..Len(init) : Instant(init[i].date) <= Instant(x.date)})
       IN SubSeq(init, 1, k) \o <<x>> \o SubSeq(init, k + 1, Len(init))

Parsed(file) == IF file = <<>> THEN <<>> ELSE ParseRows(Head(file), Tail(file))

\* load_tags, called by main at line 296.  The dates of the model's tables
\* that parse all carry a UTC offset, so the sort of line 97 never compares an
\* offset-less datetime with an offset-bearing one (a TypeError).
LoadTags ==
  /\ pc = "saved"
  /\ tags' = SortByDate(Parsed(csv_file))
  /\ pc' = "loaded"
  /\ UNCHANGED <<collectorVars, csv_file, plot, classifierVars>>

----------------------------------------------------------------------------
(* The Renderer: the series *)

\* a mutant: every tag adds a point to the stable series
CountsAsStable_All(t) == TRUE

\* line 124: if not t.is_prerelease
CountsAsStable(t) == ~t.is_prerelease

\* the loop of lines 122-128: the list stable_tags of (Tag, cum) pairs
RECURSIVE StableTags(_)
StableTags(ts) ==
  IF ts = <<>> THEN <<>>
  ELSE LET init == StableTags(SubSeq(ts, 1, Len(ts) - 1))
           t == ts[Len(ts)]
       IN IF CountsAsStable(t) THEN Append(init, <<t, Len(init) + 1>>) ELSE init

\* build_cumulative_series
build_cumulative_series(ts) ==
  LET st == StableTags(ts)
  IN [all_dates |-> [i \in 1..Len(ts) |-> ts[i].date],
      all_counts |-> [i \in 1..Len(ts) |-> i],
      stable_dates |-> [i \in 1..Len(st) |-> st[i][1].date],
      stable_counts |-> [i \in 1..Len(st) |-> st[i][2]],
      stable_tags |-> st]

\* Counter(t.date.year for t in ts if keep(t))[y]; absent years count 0
YearCount(ts, y, stableOnly) ==
  Cardinality({i \in 1..Len(ts) : ts[i].date.year = y /\ (stableOnly => ~ts[i].is_prerelease)})

\* sorted(S) for a set of integers
RECURSIVE SortedInts(_)
SortedInts(S) ==
  IF S = {} THEN <<>>
  ELSE LET m == CHOOSE x \in S : \A y \in S : x <= y
       IN <<m>> \o SortedInts(S \ {m})

\* a mutant: the years of the bars are those with a stable release
PlotYears_StableOnly(ts) ==
  SortedInts({ts[i].date.year : i \in {j \in 1..Len(ts) : ~ts[j].is_prerelease}})

\* line 140: years = sorted(all_per_year.keys())
PlotYears(ts) == SortedInts({ts[i].date.year : i \in 1..Len(ts)})

\* the loop of lines 178-190: (tag.name, y) of each annotation drawn
RECURSIVE Annotations(_)
Annotations(st) ==
  IF st = <<>> THEN <<>>
  ELSE (IF Head(st)[1].is_major THEN <<<<Head(st)[1].name, Head(st)[2]>>>> ELSE <<>>)
       \o Annotations(Tail(st))

\* what make_plot computes from the tags (lines 133-142 and 178-190)
PlotOf(ts) ==
  LET c == build_cumulative_series(ts)
      years == PlotYears(ts)
  IN [all_dates |-> c.all_dates, all_counts |-> c.all_counts,
      stable_dates |-> c.stable_dates, stable_counts |-> c.stable_counts,
      stable_tags |-> c.stable_tags,
      years |-> years,
      all_counts_y |-> [i \in 1..Len(years) |-> YearCount(ts, years[i], FALSE)],
      stable_counts_y |-> [i \in 1..Len(years) |-> YearCount(ts, years[i], TRUE)],
      annotations |-> Annotations(c.stable_tags)]

\* main, lines 297-300: make_plot on a non-empty list
MakePlot ==
  /\ pc = "loaded"
  /\ tags # <<>>
  /\ plot' = PlotOf(tags)
  /\ pc' = "plotted"
  /\ UNCHANGED <<collectorVars, csv_file, tags, classifierVars>>

\* main, lines 297-298: SystemExit on an empty list
ExitNoTags ==
  /\ pc = "loaded"
  /\ tags = <<>>
  /\ pc' = "exit"
  /\ UNCHANGED <<collectorVars, csv_file, rendererVars, classifierVars>>

V0_1_0 == <<"v", "0", ".", "1", ".", "0">>
V0_1_0RC1 == <<"v", "0", ".", "1", ".", "0", "r", "c", "1">>
V1_0_0 == <<"v", "1", ".", "0", ".", "0">>
V0_1_1 == <<"v", "0", ".", "1", ".", "1">>
D0105 == <<"2", "0", "0", "9", "-", "0", "1", "-", "0", "5", "T", "0", "0", ":", "0", "0", ":", "0", "0", "Z">>
D0109 == <<"2", "0", "0", "9", "-", "0", "1", "-", "0", "9", "T", "0", "0", ":", "0", "0", ":", "0", "0", "Z">>
D2011 == <<"2", "0", "1", "1", "-", "0", "1", "-", "0", "1", "T", "0", "0", ":", "0", "0", ":", "0", "0", "Z">>
D0109_OFFSET == <<"2", "0", "0", "9", "-", "0", "1", "-", "0", "9", "T", "0", "0", ":", "0", "0", ":", "0", "0", "+", "0", "0", ":", "0", "0">>
D_FALLBACK == <<"F", "e", "b", " ", "1", "7", ",", " ", "2", "0", "1", "7">>

\* the records and tables of the round-trip and rendering runs
RenderNames == {V0_1_0, V0_1_0RC1, V1_0_0, V0_1_1, <<>>}
RenderDates == {None, <<>>, D0105, D0109, D2011, D0109_OFFSET, D_FALLBACK}
TableDates == {D0105, D0109, D2011}
Mappings(maxRecords) ==
  UNION {{[n \in D |-> TagInfo(n, f[n])] : f \in [D -> RenderDates]} :
         D \in {X \in SUBSET RenderNames : Cardinality(X) <= maxRecords}}
\* hand-made tables: rows with distinct names, in any order
Tables(maxRecords) ==
  UNION {{<<<<S_name, S_date_iso>>>> \o [i \in 1..n |-> <<r[i][1], r[i][2]>>] :
          r \in {q \in [1..n -> RenderNames \X TableDates] :
                   \A i, j \in 1..n : i # j => q[i][1] # q[j][1]}} :
         n \in 0..maxRecords}

\* either scrape_all_tags has returned a mapping to bitcoin_version.py's main,
\* or make_plot.py's main starts on a table
RenderInit ==
  /\ \/ pc = "returned" /\ all_tags \in Mappings(MaxRecords) /\ csv_file = <<>>
     \/ pc = "saved" /\ all_tags = NoFunction /\ csv_file \in Tables(MaxRecords)
  /\ url = None
  /\ seen_urls = {}
  /\ page_num = 1
  /\ delay_seconds = 0
  /\ fetched = <<>>
  /\ slept = {}
  /\ failed = FALSE
  /\ observed = {}
  /\ replaced = [n \in CrawlNames |-> 0]
  /\ warnings = {}
  /\ last_next = None
  /\ tags = <<>>
  /\ plot = NoPlot
  /\ cname = <<>>
  /\ cresult = <<>>

RenderNext == SaveCsv \/ LoadTags \/ MakePlot \/ ExitNoTags

RenderSpec == RenderInit /\ [][RenderNext]_vars

----------------------------------------------------------------------------
(* The claims *)

Names(S) == {o.name : o \in S}
HasDate(d) == Truthy(d)
RECURSIVE Sum(_)
Sum(q) == IF q = <<>> THEN 0 ELSE Head(q) + Sum(Tail(q))
Final(q) == IF q = <<>> THEN 0 ELSE q[Len(q)]

\* no address is handed to fetch_html twice
NoRefetch == \A i, j \in 1..Len(fetched) : i # j => fetched[i] # fetched[j]

\* C1: whatever the listing source links to, also a page that links back to
\* the first, scrape_all_tags fetches no address twice and its loop ends.
C1_FetchOnceAndTerminate == []NoRefetch /\ <>(pc # "loop")

\* every address was fetched and the last page linked back to the first
C1_Witness == pc = "returned" /\ url = START_URL /\ Len(fetched) = NumUrls

\* C2: a name observed both with a date and without one (None or the empty
\* string) ends up with a record that has a date, in whatever order the
\* observations came.
C2_DatedRecordSurvives ==
  \A n \in DOMAIN all_tags :
    (/\ \E o \in observed : o.name = n /\ HasDate(o.date_iso)
     /\ \E o \in observed : o.name = n /\ ~HasDate(o.date_iso))
    => HasDate(all_tags[n].date_iso)

\* C3: once a fetch has failed the run is aborted, the failed address was
\* asked for once only, and no table has been written.
C3_FailedFetchAborts ==
  failed => /\ pc = "aborted"
            /\ csv_file = <<>>
            /\ NoRefetch

\* a later page failed after tags had been collected from an earlier one
C3_Witness == failed /\ Len(fetched) >= 2 /\ DOMAIN all_tags # {}

\* C4: with a positive delay, when the crawl has returned the sleeps are
\* exactly those between two consecutive fetches: one after every fetch but
\* the last, none after the last.
C4_SleepOnlyBetweenFetches ==
  (delay_seconds > 0 /\ pc \in {"returned", "saved"})
  => slept = 1..(Len(fetched) - 1)

\* the table on disk is the one save_csv wrote from the mapping
RoundTripped == pc = "loaded" /\ csv_file = CsvRows(all_tags)

\* the records load_tags keeps: a name, and a date string that parses
Reloadable(r) == Truthy(r.name) /\ Truthy(r.date_iso) /\ parse_iso8601(r.date_iso).ok

C6_SeriesConsistent ==
  pc = "plotted" =>
    /\ Sum(plot.stable_counts_y) = Final(plot.stable_counts)
    /\ Sum(plot.all_counts_y) = Final(plot.all_counts)
    /\ Len(plot.years) = Len(plot.all_counts_y)
    /\ Len(plot.years) = Len(plot.stable_counts_y)
    /\ \A a \in 1..Len(plot.annotations) :
         \E i \in 1..Len(plot.stable_tags) :
           /\ plot.stable_tags[i][1].name = plot.annotations[a][1]
           /\ plot.stable_tags[i][1].is_major
           /\ ~plot.stable_tags[i][1].is_prerelease
           /\ plot.stable_counts[i] = plot.annotations[a][2]
           /\ plot.stable_dates[i] = plot.stable_tags[i][1].date

\* a plot with an annotation and with a year that has tags but no stable one
C6_Witness ==
  /\ pc = "plotted"
  /\ plot.annotations # <<>>
  /\ \E i \in 1..Len(plot.years) : plot.stable_counts_y[i] = 0 /\ plot.all_counts_y[i] > 0

\* the rows of the end-to-end example, in the order given
ExampleTable ==
  <<<<S_name, S_date_iso>>, <<V0_1_0, D0109>>, <<V0_1_0RC1, D0105>>, <<V1_0_0, D2011>>>>

\* the number of tags among the first i that are no prerelease
StableUpTo(i) == Cardinality({k \in 1..i : ~tags[k].is_prerelease})

\* C7: the loaded tags are in date order; the i-th gets the all-tags count i;
\* the stable series has one point per tag that is no prerelease, in date
\* order, counted 1, 2, 3, ...; and the example rows give [1,2,3], [1,2] and
\* the annotations v0.1.0 at 1, v1.0.0 at 2.
C7_CumulativeSeries ==
  pc = "plotted" =>
    /\ \A i, j \in 1..Len(tags) : i < j => Instant(tags[i].date) <= Instant(tags[j].date)
    /\ plot.all_counts = [i \in 1..Len(tags) |-> i]
    /\ plot.all_dates = [i \in 1..Len(tags) |-> tags[i].date]
    /\ Len(plot.stable_counts) = StableUpTo(Len(tags))
    /\ Len(plot.stable_dates) = StableUpTo(Len(tags))
    /\ \A i \in 1..Len(tags) :
         ~tags[i].is_prerelease
         => /\ plot.stable_counts[StableUpTo(i)] = StableUpTo(i)
            /\ plot.stable_dates[StableUpTo(i)] = tags[i].date
            /\ plot.stable_tags[StableUpTo(i)] = <<tags[i], StableUpTo(i)>>
    /\ csv_file = ExampleTable
       => /\ plot.all_counts = <<1, 2, 3>>
          /\ plot.stable_counts = <<1, 2>>
          /\ plot.annotations = <<<<V0_1_0, 1>>, <<V1_0_0, 2>>>>

\* the example rows have been plotted
C7_Witness == pc = "plotted" /\ csv_file = ExampleTable

\* the name is "v", digits, ".", digits and then nothing or ".", digits:
\* its groups, <<>> when it has another form
VersionForm(name) == VersionGroups(name)

\* C8: classify_tag answers for every name; a name with rc, beta, alpha or
\* test in it, in any case, is a prerelease; a name v<int>.<int> or
\* v<int>.<int>.0 that is no prerelease is major; a name
\* v<int>.<int>.<nonzero>, a prerelease and a name of another form are not.
C8_Classification ==
  pc = "classified" =>
    LET g == VersionForm(cname)
        markers == {<<"r", "c">>, <<"b", "e", "t", "a">>, <<"a", "l", "p", "h", "a">>,
                    <<"t", "e", "s", "t">>}
    IN /\ cresult \in BOOLEAN \X BOOLEAN
       /\ (\E x \in markers : Contains(Lower(cname), x)) => cresult[1]
       /\ (g # <<>> /\ ~cresult[1] /\ (g[3] = None \/ g[3] = <<"0">>)) => cresult[2]
       /\ (g # <<>> /\ g[3] # None /\ IntOf(g[3]) # 0) => ~cresult[2]
       /\ cresult[1] => ~cresult[2]
       /\ g = <<>> => ~cresult[2]

\* C9: after a page, the address taken up next is the page's next address,
\* whatever was warned about; the loop is left only when that address is
\* missing or already visited; and the mapping's names are those of all the
\* tags parsed, those of pages with a cursor mismatch included.
C9_NextLinkDecides ==
  (fetched # <<>> /\ ~failed) =>
    /\ url = last_next
    /\ pc # "loop" => (~Truthy(last_next) \/ last_next \in seen_urls)
    /\ DOMAIN all_tags = Names(observed)

\* both warnings were printed on the way to the last address, and tags were kept
C9_Witness ==
  /\ warnings = {"empty", "mismatch"}
  /\ Len(fetched) = NumUrls
  /\ DOMAIN all_tags # {}
  /\ ~failed

\* the state part of C10
DedupInvariant ==
  /\ DOMAIN all_tags = Names(observed)
  /\ \A n \in DOMAIN all_tags :
       /\ all_tags[n] \in observed
       /\ all_tags[n].name = n
       /\ replaced[n] <= 1
       /\ replaced[n] = 1 => all_tags[n].date_iso # None

\* the step part of C10: a record with a date that is not None stays
DatedRecordStays ==
  \A n \in DOMAIN all_tags : all_tags[n].date_iso # None => all_tags'[n] = all_tags[n]

\* C10: after every page the mapping's names are exactly the names parsed so
\* far, each mapped to one of the observations of that name; a record is
\* overwritten at most once, and never once its date is not None.
C10_DedupMapping == []DedupInvariant /\ [][DatedRecordStays]_vars

\* a record was overwritten and both names are in the mapping
C10_Witness ==
  /\ \E n \in DOMAIN all_tags : replaced[n] = 1
  /\ Cardinality(DOMAIN all_tags) = 2

====
